---- MODULE Spec2Model ----
(***************************************************************************)
(* Model of the free@home bridge core:                                     *)
(*   src/sysap.js          the XMPP session: keepalive, frame               *)
(*                         classification, subscribe/refresh handshake      *)
(*   src/unnamed/part_000  parse (command resolution) and set (value        *)
(*                         transformation and RPC write)                    *)
(*                                                                         *)
(* JavaScript values are modelled by records [k, n, s]: k is the type tag, *)
(* n the number in tenths (fixed point, one decimal), s the characters of  *)
(* a string.  Strings the code takes apart with substr are sequences of    *)
(* one-character strings.                                                  *)
(***************************************************************************)
EXTENDS Integers, Sequences, FiniteSets, TLC

\* ------------------------------------------------------------------------
\* Bounds of the model
\* ------------------------------------------------------------------------
MaxPings == 3
MaxPulses == 2
MaxToggles == 2

\* ------------------------------------------------------------------------
\* JavaScript values
\* ------------------------------------------------------------------------
Undefined == [k |-> "undef", n |-> 0, s |-> <<>>]
NaN == [k |-> "nan", n |-> 0, s |-> <<>>]
Tenths(t) == [k |-> "num", n |-> t, s |-> <<>>]
Num(i) == Tenths(10 * i)
Str(cs) == [k |-> "str", n |-> 0, s |-> cs]

IsNum(v) == v.k = "num"
IsStr(v) == v.k = "str"

Digits == <<"0", "1", "2", "3", "4", "5", "6", "7", "8", "9">>
IsDigit(c) == \E i \in 1..10 : Digits[i] = c
DigitVal(c) == (CHOOSE i \in 1..10 : Digits[i] = c) - 1

\* value of a sequence of digits as an integer
RECURSIVE DigitsVal(_)
DigitsVal(cs) ==
  IF cs = <<>> THEN 0
  ELSE 10 * DigitsVal(SubSeq(cs, 1, Len(cs) - 1)) + DigitVal(cs[Len(cs)])

\* length of the longest prefix of cs made of digits
RECURSIVE DigitPrefix(_)
DigitPrefix(cs) ==
  IF cs = <<>> \/ ~IsDigit(cs[1]) THEN 0 ELSE 1 + DigitPrefix(Tail(cs))

\* String.prototype.substr(start) and substr(start, length), start counted from 0
SubstrFrom(cs, start) == SubSeq(cs, start + 1, Len(cs))
Substr(cs, start, len) ==
  SubSeq(cs, start + 1, IF start + len < Len(cs) THEN start + len ELSE Len(cs))

\* parseFloat on characters: optional sign, digits, optional fraction; the
\* longest numeric prefix counts, anything after it is ignored.  The result
\* is kept to one decimal (strings of the model have at most one).
ParseFloatChars(cs) ==
  LET neg == cs # <<>> /\ cs[1] = "-"
      body == IF cs # <<>> /\ cs[1] \in {"-", "+"} THEN Tail(cs) ELSE cs
      ip == DigitPrefix(body)
      rest == SubstrFrom(body, ip)
      hasFrac == Len(rest) >= 2 /\ rest[1] = "." /\ IsDigit(rest[2])
      mag == 10 * DigitsVal(SubSeq(body, 1, ip))
             + (IF hasFrac THEN DigitVal(rest[2]) ELSE 0)
  IN IF ip = 0 /\ ~hasFrac THEN NaN
     ELSE Tenths(IF neg THEN 0 - mag ELSE mag)

\* parseInt on characters: optional sign and the leading digits
ParseIntChars(cs) ==
  LET neg == cs # <<>> /\ cs[1] = "-"
      body == IF cs # <<>> /\ cs[1] \in {"-", "+"} THEN Tail(cs) ELSE cs
      ip == DigitPrefix(body)
      mag == DigitsVal(SubSeq(body, 1, ip))
  IN IF ip = 0 THEN NaN ELSE Num(IF neg THEN 0 - mag ELSE mag)

\* Number(string): the whole string must be a decimal literal; "" is 0
ToNumberChars(cs) ==
  LET body == IF cs # <<>> /\ cs[1] \in {"-", "+"} THEN Tail(cs) ELSE cs
      ip == DigitPrefix(body)
      rest == SubstrFrom(body, ip)
      whole == \/ rest = <<>> /\ ip > 0
               \/ Len(rest) = 2 /\ rest[1] = "." /\ IsDigit(rest[2])
  IN IF cs = <<>> THEN Num(0)
     ELSE IF whole THEN ParseFloatChars(cs) ELSE NaN

\* digits of a natural number
RECURSIVE NatChars(_)
NatChars(i) ==
  IF i < 10 THEN <<Digits[i + 1]>> ELSE NatChars(i \div 10) \o <<Digits[(i % 10) + 1]>>

\* String(value), as string concatenation and the XML text node apply it
ToStr(v) ==
  CASE v.k = "str" -> v.s
    [] v.k = "undef" -> <<"u", "n", "d", "e", "f", "i", "n", "e", "d">>
    [] v.k = "nan" -> <<"N", "a", "N">>
    [] v.k = "num" ->
         LET mag == IF v.n < 0 THEN 0 - v.n ELSE v.n
             frac == mag % 10
         IN (IF v.n < 0 THEN <<"-">> ELSE <<>>)
            \o NatChars(mag \div 10)
            \o (IF frac = 0 THEN <<>> ELSE <<".", Digits[frac + 1]>>)

\* parseInt(value) and parseFloat(value): the argument is converted to a string first
ParseInt(v) == ParseIntChars(ToStr(v))
ParseFloat(v) == ParseFloatChars(ToStr(v))

\* a == b of JavaScript (abstract equality) on undefined, numbers, NaN and strings
LooseEq(a, b) ==
  CASE a.k = "nan" \/ b.k = "nan" -> FALSE
    [] a.k = "undef" \/ b.k = "undef" -> a.k = b.k
    [] a.k = b.k -> a = b
    [] a.k = "str" -> ToNumberChars(a.s) = b
    [] OTHER -> a = ToNumberChars(b.s)

\* a + b and a - b on numbers (NaN and undefined give NaN)
NumAdd(a, b) == IF IsNum(a) /\ IsNum(b) THEN Tenths(a.n + b.n) ELSE NaN
NumSub(a, b) == IF IsNum(a) /\ IsNum(b) THEN Tenths(a.n - b.n) ELSE NaN
NumNeg(a) == IF IsNum(a) THEN Tenths(0 - a.n) ELSE NaN

\* ------------------------------------------------------------------------
\* Names: datapoint keys and value specifications (taken apart by substr)
\* ------------------------------------------------------------------------
idp0000 == <<"i", "d", "p", "0", "0", "0", "0">>
idp0001 == <<"i", "d", "p", "0", "0", "0", "1">>
idp0002 == <<"i", "d", "p", "0", "0", "0", "2">>
idp0007 == <<"i", "d", "p", "0", "0", "0", "7">>
idp0009 == <<"i", "d", "p", "0", "0", "0", "9">>
idp000B == <<"i", "d", "p", "0", "0", "0", "B">>
odp0000 == <<"o", "d", "p", "0", "0", "0", "0">>
odp0002 == <<"o", "d", "p", "0", "0", "0", "2">>
odp0003 == <<"o", "d", "p", "0", "0", "0", "3">>
odp0004 == <<"o", "d", "p", "0", "0", "0", "4">>
odp0006 == <<"o", "d", "p", "0", "0", "0", "6">>
odp000B == <<"o", "d", "p", "0", "0", "0", "B">>
pm0006 == <<"p", "m", "0", "0", "0", "6">>

ToggleSpec == Str(<<"x">>)
ToggleUpSpec == Str(<<"x", "-", "0">>)
ToggleDownSpec == Str(<<"x", "-", "1">>)
PulseUpSpec == Str(<<"p", "-", "0">>)
PulseDownSpec == Str(<<"p", "-", "1">>)
PlusHalfSpec == Str(<<"+", "0", ".", "5">>)
MinusHalfSpec == Str(<<"-", "0", ".", "5">>)

\* property names every JavaScript object inherits from Object.prototype
ProtoNames == {"constructor"}

ThermostatDeviceId == "9004"
ReferenceTemp == 21
PulseBaseMs == 200
KeepAliveMs == 10 * 1000

\* ------------------------------------------------------------------------
\* The State Store as parse and set read it (data.getData('actuators')):
\* a function from serial numbers to actuators
\*   [deviceId, serialNumber, channels: channel -> (datapoint key -> value)]
\* ------------------------------------------------------------------------
\* actuators[serialnumber] is truthy
HasActuator(d, serial) == serial \in DOMAIN d \/ serial \in ProtoNames
\* actuators[serialnumber].deviceId; "" stands for undefined
DeviceIdOf(d, serial) == IF serial \in DOMAIN d THEN d[serial].deviceId ELSE ""
\* actuators[serialnumber].serialNumber; "undefined" when the field is absent
BackRefOf(d, serial) == IF serial \in DOMAIN d THEN d[serial].serialNumber ELSE "undefined"
\* d[serialnumber].channels[channel].datapoints can be evaluated without a TypeError
CanReadChannel(d, serial, channel) ==
  serial \in DOMAIN d /\ channel \in DOMAIN d[serial].channels
\* d[serialnumber].channels[channel].datapoints[key]
ReadDatapoint(d, serial, channel, key) ==
  IF key \in DOMAIN d[serial].channels[channel]
  THEN d[serial].channels[channel][key]
  ELSE Undefined

\* ------------------------------------------------------------------------
\* set (src/unnamed/part_000:141-209)
\* ------------------------------------------------------------------------
\* the RPC write RemoteInterface.setDatapoint("<serial>/<channel>/<datapoint>", "<value>")
SetData(serial, channel, datapoint, value) ==
  [serial |-> serial, channel |-> channel,
   datapoint |-> ToStr(datapoint), value |-> ToStr(value)]

\* the delay setTimeout really waits: a delay that is not a number >= 1 becomes 1 ms
TimeoutDelay(v) == IF IsNum(v) /\ v.n >= 10 THEN v.n \div 10 ELSE 1

\* value == 'x'
IsToggle(value) == LooseEq(value, ToggleSpec)
\* typeof value === 'string' && value.substr(0, 2) == <marker>
HasMarker(value, marker) == IsStr(value) /\ Substr(value.s, 0, 2) = marker
\* typeof value === 'string' && (value.substr(0, 1) == '-' || value.substr(0, 1) == '+')
IsDelta(value) == IsStr(value) /\ Substr(value.s, 0, 1) \in {<<"-">>, <<"+">>}

\* variant of Complement: the value read is written back
Complement_Same(current) == IF LooseEq(current, Num(1)) THEN Num(1) ELSE Num(0)
\* value = current == 1 ? 0 : 1
Complement(current) == IF LooseEq(current, Num(1)) THEN Num(0) ELSE Num(1)

\* variant of ToggleLook: the thermostat is not told apart
ToggleLook_TwinOnly(d, serial, datapoint) == <<"o">> \o SubstrFrom(datapoint.s, 1)

\* the state read by a toggle: odp0006 for the thermostat, else the 'o' twin of the datapoint
ToggleLook(d, serial, datapoint) ==
  IF DeviceIdOf(d, serial) = ThermostatDeviceId
  THEN odp0006
  ELSE <<"o">> \o SubstrFrom(datapoint.s, 1)

\* variant of MovementStops: stop when the shutter moves against the request
MovementStops_Opposite(odp, value) ==
  \/ LooseEq(odp, Num(2)) /\ LooseEq(value, Num(1))
  \/ LooseEq(odp, Num(3)) /\ LooseEq(value, Num(0))

\* the shutter moves and the toggle asks for the direction it moves in
MovementStops(odp, value) ==
  \/ LooseEq(odp, Num(2)) /\ LooseEq(value, Num(0))
  \/ LooseEq(odp, Num(3)) /\ LooseEq(value, Num(1))

\* the value a signed delta resolves to: odp0002 + changeValue - 21
DeltaValue_NoReference(current, value) ==
  LET magnitude == ParseFloat(Str(SubstrFrom(value.s, 1)))
      changeValue == IF Substr(value.s, 0, 1) = <<"-">> THEN NumNeg(magnitude) ELSE magnitude
  IN NumAdd(ParseFloat(current), changeValue)
DeltaValue(current, value) ==
  LET magnitude == ParseFloat(Str(SubstrFrom(value.s, 1)))
      changeValue == IF Substr(value.s, 0, 1) = <<"-">> THEN NumNeg(magnitude) ELSE magnitude
  IN NumSub(NumAdd(ParseFloat(current), changeValue), Num(ReferenceTemp))

\* variant of PulseDelay: the 200 ms are left out
PulseDelay_NoBase(d, serial, channel) == ParseInt(ReadDatapoint(d, serial, channel, pm0006))

\* the delay a pulse hands to setTimeout: 200 + parseInt(pm0006)
PulseDelay(d, serial, channel) ==
  NumAdd(Num(PulseBaseMs), ParseInt(ReadDatapoint(d, serial, channel, pm0006)))

\* What one call of set does: threw (a TypeError left the call before
\* anything was sent), sent (the RPC writes sent during the call), armed (the
\* timers armed during the call).
SetThrew == [threw |-> TRUE, sent |-> <<>>, armed |-> <<>>]
SetSent(serial, channel, datapoint, value, armed) ==
  [threw |-> FALSE, sent |-> <<SetData(serial, channel, datapoint, value)>>, armed |-> armed]

\* value == 'x'
SetToggle(serial, channel, datapoint, value, d) ==
  SetSent(serial, channel, datapoint,
          Complement(ReadDatapoint(d, serial, channel, ToggleLook(d, serial, datapoint))),
          <<>>)

\* value 'x-0', 'x-1'
SetMovementToggle(serial, channel, datapoint, value, d) ==
  LET dir == Str(SubstrFrom(value.s, 2))
  IN IF MovementStops(ReadDatapoint(d, serial, channel, odp0000), dir)
     THEN SetSent(serial, channel, Str(idp0001), Num(1), <<>>)
     ELSE SetSent(serial, channel, datapoint, dir, <<>>)

\* variant of SetPulse: the call returns after arming the timer
SetPulse_Silent(serial, channel, datapoint, value, d) ==
  [threw |-> FALSE, sent |-> <<>>,
   armed |-> <<[serial |-> serial, channel |-> channel,
                delay |-> TimeoutDelay(PulseDelay(d, serial, channel))]>>]

\* value 'p-0', 'p-1': the timer is armed and the call goes on to send the direction
SetPulse(serial, channel, datapoint, value, d) ==
  LET dir == Str(SubstrFrom(value.s, 2))
  IN SetSent(serial, channel, datapoint, dir,
             <<[serial |-> serial, channel |-> channel,
                delay |-> TimeoutDelay(PulseDelay(d, serial, channel))]>>)

\* value '+0.5', '-0.5'
SetDelta(serial, channel, datapoint, value, d) ==
  SetSent(serial, channel, datapoint,
          DeltaValue(ReadDatapoint(d, serial, channel, odp0002), value), <<>>)

\* the branches of set that read d[serialnumber].channels[channel].datapoints
ReadsChannel(value) ==
  \/ IsToggle(value)
  \/ HasMarker(value, <<"x", "-">>)
  \/ HasMarker(value, <<"p", "-">>)
  \/ IsDelta(value)

Set(serial, channel, datapoint, value, d) ==
  IF ReadsChannel(value) /\ ~CanReadChannel(d, serial, channel) THEN SetThrew
  ELSE IF IsToggle(value) THEN SetToggle(serial, channel, datapoint, value, d)
  ELSE IF HasMarker(value, <<"x", "-">>) THEN SetMovementToggle(serial, channel, datapoint, value, d)
  ELSE IF HasMarker(value, <<"p", "-">>) THEN SetPulse(serial, channel, datapoint, value, d)
  ELSE IF IsDelta(value) THEN SetDelta(serial, channel, datapoint, value, d)
  ELSE SetSent(serial, channel, datapoint, value, <<>>)

\* ------------------------------------------------------------------------
\* parse (src/unnamed/part_000:22-131)
\* ------------------------------------------------------------------------
\* one action of the table: the single key of the object and its value
Entry(dp, v) == [dp |-> Str(dp), v |-> v]

\* the table commands, with its two entries that depend on the argument
\* value of parse left undefined
CommandTable ==
  ("switch" :>
     [actions |-> ("on" :> Entry(idp0000, Num(1))) @@ ("off" :> Entry(idp0000, Num(0)))
                  @@ ("toggle" :> Entry(idp0000, ToggleSpec)),
      hasDeviceIds |-> TRUE, deviceIds |-> {"B002", "100E"}])
  @@ ("switchgroup" :>
     [actions |-> ("on" :> Entry(odp0002, Num(1))) @@ ("off" :> Entry(odp0002, Num(0)))
                  @@ ("toggle" :> Entry(odp0002, ToggleSpec)),
      hasDeviceIds |-> FALSE, deviceIds |-> {}])
  @@ ("dimmer" :>
     [actions |-> ("on" :> Entry(idp0000, Num(1))) @@ ("off" :> Entry(idp0000, Num(0)))
                  @@ ("toggle" :> Entry(idp0000, ToggleSpec))
                  @@ ("up" :> Entry(idp0001, Num(9))) @@ ("down" :> Entry(idp0001, Num(1)))
                  @@ ("stop" :> Entry(idp0001, Num(0))) @@ ("set" :> Entry(idp0002, Undefined)),
      hasDeviceIds |-> TRUE, deviceIds |-> {"101C"}])
  @@ ("shutter" :>
     [actions |-> ("up" :> Entry(idp0000, Num(0))) @@ ("down" :> Entry(idp0000, Num(1)))
                  @@ ("toggle-up" :> Entry(idp0000, ToggleUpSpec))
                  @@ ("toggle-down" :> Entry(idp0000, ToggleDownSpec))
                  @@ ("pulse-up" :> Entry(idp0000, PulseUpSpec))
                  @@ ("pulse-down" :> Entry(idp0000, PulseDownSpec))
                  @@ ("stop" :> Entry(idp0001, Num(1))),
      hasDeviceIds |-> TRUE, deviceIds |-> {"B001", "1013"}])
  @@ ("shuttergroup" :>
     [actions |-> ("up" :> Entry(odp0003, Num(0))) @@ ("down" :> Entry(odp0003, Num(1)))
                  @@ ("stop" :> Entry(odp0004, Num(1))),
      hasDeviceIds |-> FALSE, deviceIds |-> {}])
  @@ ("scene" :>
     [actions |-> ("set" :> Entry(odp0000, Num(1))),
      hasDeviceIds |-> FALSE, deviceIds |-> {}])
  @@ ("thermostat" :>
     [actions |-> ("toggle" :> Entry(idp000B, ToggleSpec))
                  @@ ("set" :> Entry(idp0007, Undefined))
                  @@ ("up" :> Entry(idp0007, PlusHalfSpec))
                  @@ ("down" :> Entry(idp0007, MinusHalfSpec))
                  @@ ("on" :> Entry(idp000B, Num(1))) @@ ("off" :> Entry(idp000B, Num(0)))
                  @@ ("eco-on" :> Entry(idp0009, Num(1))) @@ ("eco-off" :> Entry(idp0009, Num(0))),
      hasDeviceIds |-> FALSE, deviceIds |-> {}])

\* the table commands as a call of parse builds it; value is the fifth argument
Commands(value) ==
  [CommandTable EXCEPT
     !["dimmer"].actions["set"].v = value,
     !["thermostat"].actions["set"].v = NumSub(value, Num(ReferenceTemp))]

\* variant of Alias: no synonym
Alias_None(type) == type

\* if (type == 'blind') type = 'shutter'
Alias(type) == IF type = "blind" THEN "shutter" ELSE type

\* variant of TargetSerial: the scene id itself
TargetSerial_SceneId(type, serialnumber, d) == serialnumber

\* the serial number the write goes to: the back-reference for a scene
TargetSerial(type, serialnumber, d) ==
  IF type = "scene" THEN BackRefOf(d, serialnumber) ELSE serialnumber

\* the deviceIds check of parse passes
DeviceIdAllowed(entry, d, serialnumber) ==
  ~entry.hasDeviceIds \/ DeviceIdOf(d, serialnumber) \in entry.deviceIds

\* One call of parse.  kind is the string returned ("ok": the confirmation;
\* "throw": no string, a TypeError left the call); target, datapoint and
\* value are what the confirmation reports; setCalled, sent and armed are the
\* effects of the call.
Parse(type0, serialnumber, channel, action, value, d) ==
  LET type == Alias(type0)
      commands == Commands(value)
      Fail(kind, called) ==
        [kind |-> kind, type |-> type, target |-> serialnumber, channel |-> channel,
         datapoint |-> <<>>, value |-> <<>>, setCalled |-> called,
         sent |-> <<>>, armed |-> <<>>]
  IN IF type \notin DOMAIN commands /\ type \notin ProtoNames THEN Fail("unknown command", FALSE)
     ELSE IF type \notin DOMAIN commands THEN Fail("throw", FALSE)
     ELSE IF action \notin DOMAIN commands[type].actions /\ action \notin ProtoNames
          THEN Fail("unknown action", FALSE)
     ELSE IF ~HasActuator(d, serialnumber) THEN Fail("not found", FALSE)
     ELSE IF ~DeviceIdAllowed(commands[type], d, serialnumber) THEN Fail("not of type", FALSE)
     ELSE
       LET target == TargetSerial(type, serialnumber, d)
           known == action \in DOMAIN commands[type].actions
           datapoint == IF known THEN commands[type].actions[action].dp ELSE Undefined
           val == IF known THEN commands[type].actions[action].v ELSE Undefined
           r == Set(target, channel, datapoint, val, d)
       IN IF r.threw THEN Fail("throw", TRUE)
          ELSE [kind |-> "ok", type |-> type, target |-> target, channel |-> channel,
                datapoint |-> ToStr(datapoint), value |-> ToStr(val), setCalled |-> TRUE,
                sent |-> r.sent, armed |-> r.armed]

\* ------------------------------------------------------------------------
\* State
\* ------------------------------------------------------------------------
VARIABLES
  actuators,   \* the State Store, data.getData('actuators')
  count,       \* sysap.js: var count
  lastping,    \* sysap.js: var lastping (undefined until the first ping)
  subscribed,  \* sysap.js: var subscribed
  online,      \* the transport has emitted 'online'
  timers,      \* pending setTimeout callbacks, in the order they were armed
  now,         \* simulated time in ms
  pulses,      \* number of pulse timers armed so far
  req,         \* the request the caller makes: the arguments of parse
  hubSeen,     \* history: a presence frame reported as the hub's has been handled
  allCount,    \* history: number of sysap_internal.all() calls made by the session
  pingLog,     \* history: the pings sent, each with its id and the time it was sent
  stops,       \* history: number of pulse timers that have fired
  toggleLog,   \* history: the toggle writes and the store updates that followed them
  last         \* history: the last event and what its handler did

vars == <<actuators, count, lastping, subscribed, online, timers, now, pulses, req,
          hubSeen, allCount, pingLog, stops, toggleLog, last>>

HubJid == "mrha@busch-jaeger.de"
HubRpc == "mrha@busch-jaeger.de/rpc"
UpdateNode == "http://abb.com/protocol/update"

\* ------------------------------------------------------------------------
\* State Store contents.  The store is filled by collaborators outside this
\* core; the model starts from one of three small topologies.
\* ------------------------------------------------------------------------
NoChannels == [c \in {} |-> <<>>]

ShutterWorld ==
  ("S1" :> [deviceId |-> "B001", serialNumber |-> "S1",
            channels |-> ("ch0000" :> ((odp0000 :> Str(<<"0">>)) @@ (pm0006 :> Str(<<"5", "0">>))))])
  @@ ("SC1" :> [deviceId |-> "4800", serialNumber |-> "S1", channels |-> NoChannels])

SwitchWorld ==
  ("W1" :> [deviceId |-> "B002", serialNumber |-> "W1",
            channels |-> ("ch0000" :> (odp0000 :> Str(<<"0">>)))])
  @@ ("D1" :> [deviceId |-> "101C", serialNumber |-> "D1",
               channels |-> ("ch0000" :> (idp0002 :> Str(<<"0">>)))])

ThermostatWorld ==
  ("T1" :> [deviceId |-> "9004", serialNumber |-> "T1",
            channels |-> ("ch0000" :> ((odp0006 :> Str(<<"0">>)) @@ (odp000B :> Str(<<"0">>))
                                       @@ (odp0002 :> Str(<<"2", "0", ".", "5">>))))])

Worlds == {ShutterWorld, SwitchWorld, ThermostatWorld}

\* the values the hub reports for a datapoint
ReportedValues(key) ==
  CASE key = odp0000 -> {Str(<<"0">>), Str(<<"1">>), Str(<<"2">>), Str(<<"3">>)}
    [] key = pm0006 -> {Str(<<"0">>), Str(<<"5", "0">>)}
    [] key = odp0006 -> {Str(<<"0">>), Str(<<"1">>)}
    [] key = odp0002 -> {Str(<<"2", "0", ".", "5">>), Str(<<"2", "2">>)}
    [] OTHER -> {}

\* the datapoint reports a frame can carry for the store d
Payloads(d) ==
  UNION {UNION {UNION {{[serial |-> s, channel |-> c, key |-> k, value |-> v] :
                          v \in ReportedValues(k)} :
                       k \in DOMAIN d[s].channels[c]} :
                c \in DOMAIN d[s].channels} :
         s \in DOMAIN d}

\* sysap_internal.update / sysap_internal.response: the State Store takes the report
ApplyReport(d, p) ==
  [d EXCEPT ![p.serial].channels[p.channel][p.key] = p.value]

\* ------------------------------------------------------------------------
\* Inputs
\* ------------------------------------------------------------------------
\* the stanza ids the hub can answer with
StanzaIds == {Undefined} \cup {Str(NatChars(i)) : i \in 1..(MaxPings + 1)}

\* inbound frames: the attributes the classification reads, and hub, the
\* answer sysap_internal.presence gives for the frame
Stanzas ==
  {[name |-> "message", type |-> t, from |-> f, node |-> n, id |-> Undefined, hub |-> FALSE] :
     t \in {"headline", "chat"}, f \in {HubJid, HubRpc}, n \in {UpdateNode, "other"}}
  \cup {[name |-> "iq", type |-> t, from |-> f, node |-> "", id |-> i, hub |-> FALSE] :
     t \in {"result", "error"}, f \in {HubJid, HubRpc}, i \in StanzaIds}
  \cup {[name |-> "presence", type |-> "", from |-> HubJid, node |-> "", id |-> Undefined, hub |-> h] :
     h \in BOOLEAN}
  \cup {[name |-> "stream:error", type |-> "", from |-> HubJid, node |-> "", id |-> Undefined,
         hub |-> FALSE]}

\* the (type, action) pairs requests are made with: every pair of the table,
\* the alias, and names the table does not have
RequestTypes == DOMAIN CommandTable \cup {"blind", "heater"} \cup ProtoNames
RequestActions(type) ==
  (IF Alias(type) \in DOMAIN CommandTable
   THEN DOMAIN CommandTable[Alias(type)].actions ELSE {"on"})
  \cup {"open"} \cup ProtoNames
RequestSerials(d) == DOMAIN d \cup {"X9"} \cup ProtoNames
RequestChannels == {"ch0000", "ch0009"}
RequestValues(action) == IF action = "set" THEN {Undefined, Num(22)} ELSE {Undefined}
RequestInputs(d) ==
  UNION {UNION {{[type |-> t, serialnumber |-> sn, channel |-> c, action |-> a, value |-> v] :
                   sn \in RequestSerials(d), c \in RequestChannels, v \in RequestValues(a)} :
                a \in RequestActions(t)} :
         t \in RequestTypes}

\* ------------------------------------------------------------------------
\* Timers
\* ------------------------------------------------------------------------
Min(S) == CHOOSE x \in S : \A y \in S : x <= y
DueTimes == {timers[i].due : i \in DOMAIN timers}
RemoveAt(seq, i) == SubSeq(seq, 1, i - 1) \o SubSeq(seq, i + 1, Len(seq))

KeepAliveTimer(t) ==
  [kind |-> "keepAlive", serial |-> "", channel |-> "", due |-> t + KeepAliveMs,
   armedAt |-> t, pm |-> Undefined]
\* the timer of a pulse; pm records the pm0006 value the store held at the call
StopTimer(a, t, pm) ==
  [kind |-> "stop", serial |-> a.serial, channel |-> a.channel, due |-> t + a.delay,
   armedAt |-> t, pm |-> pm]

\* ------------------------------------------------------------------------
\* Init
\* ------------------------------------------------------------------------
Init ==
  /\ actuators \in Worlds
  /\ req \in RequestInputs(actuators)
  /\ count = 0
  /\ lastping = Undefined
  /\ subscribed = FALSE
  /\ online = FALSE
  /\ timers = <<>>
  /\ now = 0
  /\ pulses = 0
  /\ hubSeen = FALSE
  /\ allCount = 0
  /\ pingLog = <<>>
  /\ stops = 0
  /\ toggleLog = <<>>
  /\ last = [op |-> "init"]

\* ------------------------------------------------------------------------
\* Actions of the session (src/sysap.js)
\* ------------------------------------------------------------------------
\* variant of keepAlive: lastping is taken before count is incremented
KeepAlive_StaleLastping(pending) ==
  /\ count' = count + 1
  /\ lastping' = Num(count)
  /\ timers' = Append(pending, [kind |-> "keepAlive", serial |-> "", channel |-> "",
                                 due |-> now + KeepAliveMs, armedAt |-> now, pm |-> Undefined])
  /\ pingLog' = Append(pingLog, [id |-> count + 1, at |-> now])

\* function keepAlive: count++, lastping = count, send the ping, setTimeout
KeepAlive(pending) ==
  /\ count' = count + 1
  /\ lastping' = Num(count + 1)
  /\ timers' = Append(pending, KeepAliveTimer(now))
  /\ pingLog' = Append(pingLog, [id |-> count + 1, at |-> now])

\* sysap.on('online'): the transport is configured without reconnection, so
\* the event comes once
Online ==
  /\ ~online
  /\ count < MaxPings
  /\ online' = TRUE
  /\ KeepAlive(timers)
  /\ last' = [op |-> "online", calls |-> <<"subscribe">>]
  /\ UNCHANGED <<actuators, subscribed, pulses, req, hubSeen, allCount, now, stops, toggleLog>>

\* the keepalive timer fires
KeepAliveFire(i) ==
  /\ timers[i].kind = "keepAlive"
  /\ timers[i].due <= now
  /\ count < MaxPings
  /\ KeepAlive(RemoveAt(timers, i))
  /\ last' = [op |-> "keepAlive", timer |-> timers[i], calls |-> <<>>]
  /\ UNCHANGED <<actuators, subscribed, online, pulses, req, hubSeen, allCount, now, stops,
                 toggleLog>>

IsUpdate(st) ==
  /\ st.name = "message"
  /\ st.type = "headline"
  /\ st.from = HubJid
  /\ st.node = UpdateNode
\* variant of IsResult: the sender is not tested
IsResult_AnySender(st) ==
  /\ st.name = "iq"
  /\ st.type = "result"
IsResult(st) ==
  /\ st.name = "iq"
  /\ st.type = "result"
  /\ st.from = HubRpc
\* variant of IsPingResult: strict equality of the id attribute and the counter
IsPingResult_Strict(st) == st.id = lastping
IsPingResult(st) == LooseEq(st.id, lastping)
IsPresence(st) == st.name = "presence"

\* variant of StanzaCalls: the subscribed flag is not consulted
StanzaCalls_NoFlag(st) ==
  IF IsUpdate(st) THEN <<"update", "status">>
  ELSE IF IsResult(st) THEN
    IF IsPingResult(st) THEN <<>> ELSE <<"response", "status">>
  ELSE IF IsPresence(st) THEN
    IF st.hub THEN <<"presence", "subscribed", "all">> ELSE <<"presence">>
  ELSE <<>>

\* the collaborator calls the stanza handler makes for st
StanzaCalls(st) ==
  IF IsUpdate(st) THEN <<"update", "status">>
  ELSE IF IsResult(st) THEN
    IF IsPingResult(st) THEN <<>> ELSE <<"response", "status">>
  ELSE IF IsPresence(st) THEN
    IF st.hub /\ ~subscribed THEN <<"presence", "subscribed", "all">> ELSE <<"presence">>
  ELSE <<>>

Calls(cs, name) == Cardinality({i \in DOMAIN cs : cs[i] = name})

\* sysap.on('stanza'); p is the datapoint report the frame carries
Stanza(st, p) ==
  LET calls == StanzaCalls(st)
  IN /\ actuators' = IF Calls(calls, "update") + Calls(calls, "response") > 0
                     THEN ApplyReport(actuators, p) ELSE actuators
     /\ subscribed' = (subscribed \/ Calls(calls, "all") > 0)
     /\ allCount' = allCount + Calls(calls, "all")
     /\ hubSeen' = (hubSeen \/ (IsPresence(st) /\ st.hub))
     /\ toggleLog' = IF /\ Calls(calls, "update") + Calls(calls, "response") > 0
                         /\ toggleLog # <<>>
                         /\ toggleLog[Len(toggleLog)].op = "toggle"
                      THEN Append(toggleLog, [op |-> "update", value |-> <<>>])
                      ELSE toggleLog
     /\ last' = [op |-> "stanza", stanza |-> st, calls |-> calls]
     /\ UNCHANGED <<count, lastping, online, timers, now, pulses, req, pingLog, stops>>

Frame == \E st \in Stanzas : \E p \in Payloads(actuators) : Stanza(st, p)
UpdateFrame ==
  \E st \in {x \in Stanzas : IsUpdate(x)} : \E p \in Payloads(actuators) : Stanza(st, p)

\* variant of Error: the handler clears the keepalive timer
Error_Disarm ==
  /\ timers' = SelectSeq(timers, LAMBDA t : t.kind # "keepAlive")
  /\ last' = [op |-> "error", calls |-> <<>>]
  /\ UNCHANGED <<actuators, count, lastping, subscribed, online, now, pulses, req,
                 hubSeen, allCount, pingLog, stops, toggleLog>>
\* sysap.on('error'): the error is logged
Error ==
  /\ last' = [op |-> "error", calls |-> <<>>]
  /\ UNCHANGED <<actuators, count, lastping, subscribed, online, timers, now, pulses, req,
                 hubSeen, allCount, pingLog, stops, toggleLog>>

\* ------------------------------------------------------------------------
\* Actions of the command engine (src/unnamed/part_000)
\* ------------------------------------------------------------------------
\* the toggle writes in the log
ToggleEntries == {i \in DOMAIN toggleLog : toggleLog[i].op = "toggle"}
\* variant of Arm: a new stop timer replaces the stop timers still pending
Arm_Replace(pending, armed) ==
  IF armed = <<>> THEN pending
  ELSE SelectSeq(pending, LAMBDA t : t.kind # "stop") \o armed
\* setTimeout: the callbacks armed join the pending ones
Arm(pending, armed) == pending \o armed

\* a call of parse with the caller's arguments
Request ==
  LET out == Parse(req.type, req.serialnumber, req.channel, req.action, req.value, actuators)
      pm == IF CanReadChannel(actuators, out.target, req.channel)
            THEN ReadDatapoint(actuators, out.target, req.channel, pm0006) ELSE Undefined
      toggled == out.kind = "ok" /\ out.value = ToggleSpec.s /\ Len(out.sent) = 1
  IN /\ pulses + Len(out.armed) <= MaxPulses
     /\ toggled => Cardinality(ToggleEntries) < MaxToggles
     /\ timers' = Arm(timers, [i \in DOMAIN out.armed |-> StopTimer(out.armed[i], now, pm)])
     /\ pulses' = pulses + Len(out.armed)
     /\ toggleLog' = IF toggled
                      THEN Append(toggleLog, [op |-> "toggle", value |-> out.sent[1].value])
                      ELSE toggleLog
     /\ last' = [op |-> "parse", out |-> out]
     /\ UNCHANGED <<actuators, count, lastping, subscribed, online, now, req, hubSeen, allCount,
                    pingLog, stops>>

\* the timer of a pulse fires: set(serialnumber, channel, 'idp0001', 1)
StopFire(i) ==
  LET t == timers[i]
      r == Set(t.serial, t.channel, Str(idp0001), Num(1), actuators)
  IN /\ t.kind = "stop"
     /\ t.due <= now
     /\ timers' = RemoveAt(timers, i) \o
                    [j \in DOMAIN r.armed |-> StopTimer(r.armed[j], now, Undefined)]
     /\ stops' = stops + 1
     /\ last' = [op |-> "stop", timer |-> t, out |-> r]
     /\ UNCHANGED <<actuators, count, lastping, subscribed, online, now, pulses, req,
                    hubSeen, allCount, pingLog, toggleLog>>

\* ------------------------------------------------------------------------
\* Time: the clock moves to the next instant a timer is due
\* ------------------------------------------------------------------------
Advance ==
  /\ timers # <<>>
  /\ now < Min(DueTimes)
  /\ now' = Min(DueTimes)
  /\ last' = [op |-> "advance"]
  /\ UNCHANGED <<actuators, count, lastping, subscribed, online, timers, pulses, req,
                 hubSeen, allCount, pingLog, stops, toggleLog>>

\* ------------------------------------------------------------------------
\* Specifications
\* ------------------------------------------------------------------------
\* the session alone
SessionNext ==
  \/ Online
  \/ \E i \in DOMAIN timers : KeepAliveFire(i)
  \/ Frame
  \/ Error
  \/ Advance
\* no request is made in this specification; req keeps one value
NoCaller ==
  [type |-> "switch", serialnumber |-> "X9", channel |-> "ch0000", action |-> "on",
   value |-> Undefined]
InitSession == Init /\ req = NoCaller
SpecSession == InitSession /\ [][SessionNext]_vars

\* the command engine, with the hub's updates of the State Store
CommandNext ==
  \/ Request
  \/ \E i \in DOMAIN timers : StopFire(i)
  \/ UpdateFrame
  \/ Advance
SpecCommand == Init /\ [][CommandNext]_vars

\* pulse requests among the frames and errors of the session; the event loop
\* runs every callback that is due, and time passes
InitPulse ==
  /\ Init
  /\ actuators = ShutterWorld
  /\ req.type = "shutter"
  /\ req.action \in {"pulse-up", "pulse-down"}
\* one frame of each class: an update, an RPC result, the two presence
\* frames and an unknown frame
ClassStanzas ==
  {st \in Stanzas :
     \/ IsUpdate(st)
     \/ IsResult(st) /\ st.id = Str(<<"1">>)
     \/ IsPresence(st)
     \/ st.name = "stream:error"}
ClassFrame == \E st \in ClassStanzas : \E p \in Payloads(actuators) : Stanza(st, p)
PulseNext ==
  \/ Request
  \/ \E i \in DOMAIN timers : StopFire(i)
  \/ ClassFrame
  \/ Error
  \/ Advance
SpecPulse ==
  /\ InitPulse
  /\ [][PulseNext]_vars
  /\ WF_vars(\E i \in DOMAIN timers : StopFire(i))
  /\ WF_vars(Advance)

Next ==
  \/ SessionNext
  \/ CommandNext
Spec == Init /\ [][Next]_vars

TypeOK ==
  /\ count \in 0..MaxPings
  /\ pulses \in 0..MaxPulses
  /\ subscribed \in BOOLEAN
  /\ online \in BOOLEAN

\* ------------------------------------------------------------------------
\* Properties
\* ------------------------------------------------------------------------
\* the last step was a call of parse that returned the confirmation
Confirmed == last.op = "parse" /\ last.out.kind = "ok"
\* the value the store holds for a datapoint of the requested channel
Stored(key) == ReadDatapoint(actuators, req.serialnumber, req.channel, key)
\* an RPC write to the requested serial and channel
WriteTo(serial, datapoint, value) ==
  [serial |-> serial, channel |-> req.channel, datapoint |-> datapoint, value |-> value]

MovementToggled ==
  /\ Confirmed
  /\ req.type \in {"shutter", "blind"}
  /\ req.action \in {"toggle-up", "toggle-down"}
AsksUp == req.action = "toggle-up"
AsksDown == req.action = "toggle-down"
MovingUp == Stored(odp0000) = Str(<<"2">>)
MovingDown == Stored(odp0000) = Str(<<"3">>)
StopWrite == WriteTo(req.serialnumber, idp0001, <<"1">>)
DirectionWrite == WriteTo(req.serialnumber, idp0000, IF AsksUp THEN <<"0">> ELSE <<"1">>)

\* C1 as stated: a movement toggle writes the stop (idp0001, 1) when the
\* shutter moves in the direction opposite to the requested one, and the raw
\* directional command (idp0000, direction) otherwise.
C1_StopOnOppositeMotion ==
  MovementToggled =>
    IF (MovingUp /\ AsksDown) \/ (MovingDown /\ AsksUp)
    THEN last.out.sent = <<StopWrite>>
    ELSE last.out.sent = <<DirectionWrite>>

\* C1 amended: a movement toggle writes the stop (idp0001, 1) when the shutter
\* already moves in the requested direction (odp0000 = 2 with an up request,
\* odp0000 = 3 with a down request), and the raw directional command
\* (idp0000, direction) when it is stationary or moves in the opposite direction.
C1_StopOnSameMotion ==
  MovementToggled =>
    IF (MovingUp /\ AsksUp) \/ (MovingDown /\ AsksDown)
    THEN last.out.sent = <<StopWrite>>
    ELSE last.out.sent = <<DirectionWrite>>

C1_Witness ==
  /\ MovementToggled
  /\ MovingUp
  /\ AsksUp
  /\ last.out.sent = <<StopWrite>>

HubPresenceHandled ==
  /\ last.op = "stanza"
  /\ last.stanza.name = "presence"
  /\ last.stanza.hub

\* C2: the session calls sysap_internal.all() never before the first presence
\* frame reported as the hub's, once at that frame and never again; a frame
\* asks for the refresh only if it is such a presence frame.
C2_RefreshOnce ==
  /\ allCount = (IF hubSeen THEN 1 ELSE 0)
  /\ (last.op = "stanza" /\ Calls(last.calls, "all") > 0) =>
       (HubPresenceHandled /\ Calls(last.calls, "all") = 1)

C2_Witness ==
  /\ HubPresenceHandled
  /\ allCount = 1
  /\ Calls(last.calls, "all") = 0

PingResultHandled ==
  /\ last.op = "stanza"
  /\ last.stanza.name = "iq"
  /\ last.stanza.type = "result"
  /\ last.stanza.from = HubRpc
  /\ count >= 1
  /\ last.stanza.id = Str(NatChars(count))

\* C3: an iq result from the hub's RPC address whose id is the id of the most
\* recently sent ping calls no collaborator: neither response nor status.
C3_PingResultIgnored == PingResultHandled => last.calls = <<>>

C3_Witness ==
  /\ PingResultHandled
  /\ count = 2
  /\ last.calls = <<>>

KeepAliveTimers == {i \in DOMAIN timers : timers[i].kind = "keepAlive"}

\* C4: the first ping is sent in the 'online' handler with id 1, ping k is
\* sent 10 seconds after ping k-1 with id k, lastping is the id of the last
\* ping sent, and one keepalive timer is pending for 10 seconds after the
\* last ping, whatever frames and errors arrive in between.
C4_KeepAlive ==
  /\ Len(pingLog) = count
  /\ \A k \in DOMAIN pingLog :
       /\ pingLog[k].id = k
       /\ pingLog[k].at = pingLog[1].at + (k - 1) * 10000
  /\ ~online => (count = 0 /\ KeepAliveTimers = {})
  /\ online =>
       /\ count >= 1
       /\ lastping = Num(count)
       /\ Cardinality(KeepAliveTimers) = 1
       /\ \A i \in KeepAliveTimers : timers[i].due = pingLog[count].at + 10000
  /\ last.op = "online" => (count = 1 /\ pingLog[1].at = now)
  /\ last.op = "keepAlive" => pingLog[count].at = now

C4_Witness ==
  /\ last.op = "keepAlive"
  /\ count = 3
  /\ now = 20000
  /\ lastping = Num(3)

PulseRequested ==
  /\ Confirmed
  /\ req.action \in {"pulse-up", "pulse-down"}
\* the motor delay in ms a pm0006 value stands for
MotorDelay(pm) == IF pm = Str(<<"5", "0">>) THEN 50 ELSE 0
StopTimers == {i \in DOMAIN timers : timers[i].kind = "stop"}

\* C5: a pulse request arms one timer, due 200 + pm0006 ms after the call with
\* the pm0006 value the store held at the call; when the timer fires, not
\* earlier than that, it sends one write (idp0001, 1) to the serial and channel
\* of the request; every timer fires at most once.
C5_PulseStop ==
  /\ PulseRequested =>
       /\ Len(last.out.armed) = 1
       /\ timers[Len(timers)] =
            [kind |-> "stop", serial |-> req.serialnumber, channel |-> req.channel,
             due |-> now + 200 + MotorDelay(Stored(pm0006)), armedAt |-> now,
             pm |-> Stored(pm0006)]
  /\ last.op = "stop" =>
       /\ last.out.sent = <<[serial |-> last.timer.serial, channel |-> last.timer.channel,
                             datapoint |-> idp0001, value |-> <<"1">>]>>
       /\ last.timer.serial = req.serialnumber
       /\ last.timer.channel = req.channel
       /\ now >= last.timer.armedAt + 200 + MotorDelay(last.timer.pm)
  /\ stops + Cardinality(StopTimers) = pulses

C5_Witness ==
  /\ last.op = "stop"
  /\ last.timer.pm = Str(<<"5", "0">>)
  /\ now = last.timer.armedAt + 250
  /\ Stored(pm0006) = Str(<<"0">>)

\* the last step was a call of parse that called set, and set returned
SetReturned == Confirmed /\ last.out.setCalled
IsPulse == req.action \in {"pulse-up", "pulse-down"}

\* C6 as stated, for the calls of set that return: every call causes one
\* write in total; a pulse sends nothing during the call, its one write is
\* the stop sent by the timer.
C6_PulseSendsNothingAtCall ==
  /\ SetReturned =>
       IF IsPulse
       THEN Len(last.out.sent) = 0 /\ Len(last.out.armed) = 1
       ELSE Len(last.out.sent) = 1 /\ Len(last.out.armed) = 0
  /\ last.op = "stop" => (Len(last.out.sent) = 1 /\ Len(last.out.armed) = 0)

\* C6 amended: every call of set that returns sends one write during the
\* call, a pulse included (its directional command); only a pulse arms a
\* timer, one, and the timer's call of set sends one more write, the stop, so
\* a pulse causes two writes; a call of set that ends in a TypeError sends
\* nothing and arms nothing.
C6_OneWritePerCall ==
  /\ SetReturned =>
       /\ Len(last.out.sent) = 1
       /\ Len(last.out.armed) = (IF IsPulse THEN 1 ELSE 0)
       /\ IsPulse => last.out.sent =
            <<WriteTo(req.serialnumber, idp0000,
                      IF req.action = "pulse-up" THEN <<"0">> ELSE <<"1">>)>>
  /\ (last.op = "parse" /\ last.out.kind # "ok") =>
       (last.out.sent = <<>> /\ last.out.armed = <<>>)
  /\ last.op = "stop" => (Len(last.out.sent) = 1 /\ Len(last.out.armed) = 0)
  /\ stops + Cardinality(StopTimers) = pulses

C6_Witness ==
  /\ SetReturned
  /\ IsPulse
  /\ Len(last.out.sent) = 1
  /\ Cardinality(StopTimers) = 2

Toggled ==
  /\ Confirmed
  /\ req.action = "toggle"
  /\ req.serialnumber \in DOMAIN actuators
\* the written datapoint with its first letter replaced by 'o'
OutputTwin(datapoint) == [datapoint EXCEPT ![1] = "o"]
\* the state a toggle has to complement
ToggleState ==
  IF actuators[req.serialnumber].deviceId = "9004"
  THEN Stored(odp0006)
  ELSE Stored(OutputTwin(last.out.sent[1].datapoint))

\* C7: a toggle writes 0 when the state read is 1 and 1 when it is 0; the
\* state read is odp0006 for a deviceId '9004' and the output twin of the
\* written datapoint for every other actuator.
C7_ToggleComplement ==
  Toggled =>
    /\ Len(last.out.sent) = 1
    /\ ToggleState = Str(<<"1">>) => last.out.sent[1].value = <<"0">>
    /\ ToggleState = Str(<<"0">>) => last.out.sent[1].value = <<"1">>

C7_Witness ==
  /\ Toggled
  /\ req.type = "thermostat"
  /\ actuators[req.serialnumber].deviceId = "9004"
  /\ Stored(odp0006) = Str(<<"1">>)
  /\ Stored(odp000B) = Str(<<"0">>)
  /\ last.out.sent[1].value = <<"0">>

SceneSet ==
  /\ Confirmed
  /\ req.type = "scene"
  /\ req.action = "set"
  /\ req.serialnumber \in DOMAIN actuators

\* C8: a scene/set request writes (odp0000, 1) to the serial number in the
\* scene entry's serialNumber field, not to the scene id when they differ; a
\* request of any other type writes to the serial number it was given.
C8_SceneTarget ==
  /\ SceneSet =>
       last.out.sent =
         <<WriteTo(actuators[req.serialnumber].serialNumber, odp0000, <<"1">>)>>
  /\ (Confirmed /\ req.type # "scene") =>
       \A i \in DOMAIN last.out.sent : last.out.sent[i].serial = req.serialnumber

C8_Witness ==
  /\ SceneSet
  /\ req.serialnumber = "SC1"
  /\ last.out.sent[1].serial = "S1"

\* the request names a pair of the table and a serial of the store
TableRequest ==
  /\ last.op = "parse"
  /\ req.type \in DOMAIN CommandTable
  /\ req.action \in DOMAIN CommandTable[req.type].actions
  /\ req.serialnumber \in DOMAIN actuators
OnAllowList ==
  \/ ~CommandTable[req.type].hasDeviceIds
  \/ actuators[req.serialnumber].deviceId \in CommandTable[req.type].deviceIds

\* C9 as stated: a request for a pair of the table and a serial of the store
\* calls set and returns the confirmation when the type has no allow-list or
\* the deviceId is on it, and returns the 'is not of type' error without
\* calling set otherwise.
C9_AllowListDecides ==
  TableRequest =>
    IF OnAllowList
    THEN last.out.kind = "ok" /\ last.out.setCalled
    ELSE last.out.kind = "not of type" /\ ~last.out.setCalled

\* what a request says and does
Outcome(out) ==
  [kind |-> out.kind, type |-> out.type, target |-> out.target, channel |-> out.channel,
   datapoint |-> out.datapoint, value |-> out.value, sent |-> out.sent, armed |-> out.armed]

\* C10: a request of type 'blind' has the outcome of the same request of type
\* 'shutter': the same string, the same write and the same timers.
C10_BlindIsShutter ==
  (last.op = "parse" /\ req.type = "blind") =>
    Outcome(last.out) =
      Outcome(Parse("shutter", req.serialnumber, req.channel, req.action, req.value, actuators))

C10_Witness ==
  /\ Confirmed
  /\ req.type = "blind"
  /\ req.action = "pulse-down"
  /\ last.out.sent = <<WriteTo("S1", idp0000, <<"1">>)>>
  /\ Len(last.out.armed) = 1

\* C11 as stated: every request ends by returning a string, the confirmation
\* or one of the error strings, whatever its arguments and whatever the store
\* holds; no request ends in an exception.
C11_AlwaysReturnsString == last.op = "parse" => last.out.kind # "throw"

\* the write a confirmation string reports after 'to <action>: '
ReportedWrite ==
  [serial |-> last.out.target, channel |-> last.out.channel,
   datapoint |-> last.out.datapoint, value |-> last.out.value]

\* C12 as stated: on every successful request the serial/channel/datapoint and
\* value the confirmation string reports are those of the write the request
\* sent, for a literal, a toggle, a movement toggle, a pulse and a signed delta.
C12_ConfirmationReportsWrite ==
  (Confirmed /\ req.type \in DOMAIN CommandTable /\ req.action \in DOMAIN CommandTable[req.type].actions) =>
    last.out.sent = <<ReportedWrite>>

DeltaRequested ==
  /\ Confirmed
  /\ req.type = "thermostat"
  /\ req.action \in {"up", "down"}
  /\ req.serialnumber \in DOMAIN actuators
\* a stored temperature in tenths of a degree
TempTenths(t) == IF t = Str(<<"2", "0", ".", "5">>) THEN 205 ELSE 220
\* the text of a setpoint given in tenths of a degree
SetpointText(t) ==
  CASE t = -10 -> <<"-", "1">>
    [] t = 0 -> <<"0">>
    [] t = 5 -> <<"0", ".", "5">>
    [] t = 15 -> <<"1", ".", "5">>

\* C13: for a stored odp0002 temperature, an up or down request of a
\* thermostat writes idp0007 with odp0002 plus 0.5 (up) or minus 0.5 (down)
\* minus 21; with odp0002 = 20.5, down writes -1.
C13_DeltaSetpoint ==
  (DeltaRequested /\ IsStr(Stored(odp0002))) =>
    last.out.sent =
      <<WriteTo(req.serialnumber, idp0007,
                SetpointText(TempTenths(Stored(odp0002))
                             + (IF req.action = "up" THEN 5 ELSE -5) - 210))>>

C13_Witness ==
  /\ DeltaRequested
  /\ Stored(odp0002) = Str(<<"2", "0", ".", "5">>)
  /\ req.action = "down"
  /\ last.out.sent = <<WriteTo(req.serialnumber, idp0007, <<"-", "1">>)>>

\* the type a request names once the alias 'blind' is resolved
NamedType == IF req.type = "blind" THEN "shutter" ELSE req.type
\* the error of the first check a request fails, "ok" when it fails none
FirstFailure ==
  IF NamedType \notin DOMAIN CommandTable THEN "unknown command"
  ELSE IF req.action \notin DOMAIN CommandTable[NamedType].actions THEN "unknown action"
  ELSE IF req.serialnumber \notin DOMAIN actuators THEN "not found"
  ELSE IF /\ CommandTable[NamedType].hasDeviceIds
          /\ actuators[req.serialnumber].deviceId \notin CommandTable[NamedType].deviceIds
       THEN "not of type"
  ELSE "ok"

\* C14 as stated: a request is validated in the order unknown type, unknown
\* action, unknown serial, deviceId not on the allow-list, and returns the
\* error of the first check it fails; a request that fails a check sends no
\* write, arms no timer and leaves the store unchanged.
C14_FirstFailureReported ==
  [][last'.op = "parse" =>
       /\ FirstFailure # "ok" =>
            /\ last'.out.kind = FirstFailure
            /\ last'.out.sent = <<>>
            /\ last'.out.armed = <<>>
            /\ UNCHANGED <<actuators, timers>>
       /\ last'.out.kind \in {"unknown command", "unknown action", "not found", "not of type"} =>
            /\ last'.out.kind = FirstFailure
            /\ last'.out.sent = <<>>
            /\ UNCHANGED <<actuators, timers>>]_vars

\* two toggle writes follow each other in the log with no store update between
TogglesBackToBack(i) ==
  /\ i + 1 \in DOMAIN toggleLog
  /\ toggleLog[i].op = "toggle"
  /\ toggleLog[i + 1].op = "toggle"
\* the last step was a toggle request, and since the toggle write before it
\* (entry i) one store update was processed, which left the state the toggle
\* reads at the value that write carried
ToggledAfterEcho(i) ==
  /\ Toggled
  /\ i + 2 = Len(toggleLog)
  /\ toggleLog[i].op = "toggle"
  /\ toggleLog[i + 1].op = "update"
  /\ toggleLog[i + 2].op = "toggle"
  /\ ToggleState = Str(toggleLog[i].value)

\* C15: two toggle requests for the same serial, channel and datapoint with
\* no store update processed between them write the same value; when the
\* update that reflects the first write is processed between them, the second
\* request writes the opposite value.
C15_DoubleToggle ==
  \A i \in DOMAIN toggleLog :
    /\ TogglesBackToBack(i) => toggleLog[i + 1].value = toggleLog[i].value
    /\ ToggledAfterEcho(i) =>
         /\ toggleLog[i + 2].value # toggleLog[i].value
         /\ {toggleLog[i].value, toggleLog[i + 2].value} = {<<"0">>, <<"1">>}

C15_Witness ==
  /\ Toggled
  /\ Len(toggleLog) = 2
  /\ TogglesBackToBack(1)
  /\ toggleLog[1].value = <<"1">>
  /\ toggleLog[2].value = <<"1">>
  /\ ToggleState = Str(<<"0">>)

\* the second case of C15 is reached as well
C15_EchoReached == \E i \in DOMAIN toggleLog : ToggledAfterEcho(i)

\* the pending stop timers of a timer list, in the order they were armed
PendingStops(ts) == SelectSeq(ts, LAMBDA t : t.kind = "stop")
\* every pending stop timer is still pending after the step
StopsKept ==
  LET before == PendingStops(timers)
      after == PendingStops(timers')
  IN /\ Len(before) <= Len(after)
     /\ SubSeq(after, 1, Len(before)) = before

\* C16: the stop timers of pulses are independent: every pulse arms one, no
\* request, frame, error or passage of time removes a pending one (only its
\* own firing does), every firing sends the write (idp0001, 1), and n pulses
\* requested before any timer has fired are followed by n stop writes.
C16_StopsNeverCancelled ==
  /\ [](stops + Len(PendingStops(timers)) = pulses)
  /\ [](last.op = "stop" =>
          last.out.sent = <<[serial |-> last.timer.serial, channel |-> last.timer.channel,
                             datapoint |-> idp0001, value |-> <<"1">>]>>)
  /\ [][stops' = stops => StopsKept]_vars
  /\ [][stops' # stops =>
          (stops' = stops + 1 /\ Len(PendingStops(timers')) = Len(PendingStops(timers)) - 1)]_vars
  /\ \A n \in 1..MaxPulses : (pulses = n /\ stops = 0) ~> (stops = n)

C16_Witness ==
  /\ last.op = "stop"
  /\ pulses = 2
  /\ stops = 2
  /\ last.timer.armedAt = 0
  /\ now = last.timer.due
  /\ timers = <<>>

\* the class of a frame: the first of update, RPC result and presence whose
\* test the frame passes, unknown when it passes none
FrameClass(st) ==
  IF st.name = "message" /\ st.type = "headline" /\ st.from = "mrha@busch-jaeger.de"
     /\ st.node = "http://abb.com/protocol/update"
  THEN "update"
  ELSE IF st.name = "iq" /\ st.type = "result" /\ st.from = "mrha@busch-jaeger.de/rpc"
  THEN "result"
  ELSE IF st.name = "presence" THEN "presence"
  ELSE "unknown"
\* a ping has been sent and the frame carries another id than the last one
DiffersFromLastPing(st) == count >= 1 /\ st.id # Str(NatChars(count))

C18_ErrorChangesNothing ==
  /\ [][last'.op = "error" =>
          /\ last'.calls = <<>>
          /\ UNCHANGED <<subscribed, count, lastping, online, timers, actuators, pingLog,
                         allCount, now>>]_vars
  /\ [](online => Cardinality(KeepAliveTimers) = 1)

C18_Witness ==
  /\ last.op = "error"
  /\ online
  /\ count = 2
  /\ lastping = Num(2)
  /\ Cardinality(KeepAliveTimers) = 1
  /\ \A i \in KeepAliveTimers : timers[i].due = 20000

\* C19 as stated: whatever the order of 'online' and the inbound frames, the
\* full refresh sysap_internal.all() is not called before the subscription
\* request sysap_internal.subscribe() of the 'online' handler has been made.
C19_SubscribeBeforeRefresh == allCount > 0 => online

\* an RPC result frame that carries the id of a ping this session has sent
PingAckHandled ==
  /\ last.op = "stanza"
  /\ FrameClass(last.stanza) = "result"
  /\ \E k \in 1..count : last.stanza.id = Str(NatChars(k))

\* C20 as stated: the acknowledgement of a ping this session has sent is
\* never passed to the response handler and never followed by a status
\* publish, the acknowledgement of ping k that arrives after ping k+1 included.
C20_NoPingAckForwarded == PingAckHandled => last.calls = <<>>

====
